---- MODULE Spec2Model ----
(***************************************************************************)
(* Model of scripts/process_video_gameplay.py: one invocation of           *)
(* process_gameplay_clip, from opening the source clip to the return or    *)
(* the raised error, with the geometry of the three layer builders, the    *)
(* webcam-zone classifier and the resource life cycle.                     *)
(* Times are whole seconds, sizes are <<width, height>> in pixels.         *)
(***************************************************************************)
EXTENDS Integers, Sequences, FiniteSets, TLC

\* ------------------------------------------------------------------ bounds
\* Source durations range over MAX_DURATION - MaxOver .. MAX_DURATION + MaxOver.
MaxOver == 2
\* Source frames are the base sizes scaled by 1 .. MaxScale.
MaxScale == 2
\* The outro asset lasts 1 .. MaxOutro seconds.
MaxOutro == 3

\* ------------------------------------------------- global configuration
RESOLUTION == <<1080, 1920>>
MAX_DURATION == 180
WEBCAM_COORDS == [x1 |-> 5, y1 |-> 8, x2 |-> 542, y2 |-> 282]

\* ------------------------------------------------------------ arithmetic
Min(a, b) == IF a <= b THEN a ELSE b
Max(a, b) == IF a >= b THEN a ELSE b

\* int(n / d) of Python for d > 0: truncation toward zero.
Trunc(n, d) == IF n >= 0 THEN n \div d ELSE -((-n) \div d)

\* round(n / d) of Python for d > 0: to nearest, ties to even.
Round(n, d) ==
  LET q == n \div d
      r == n % d
  IN  IF 2 * r < d THEN q
      ELSE IF 2 * r > d THEN q + 1
      ELSE IF q % 2 = 0 THEN q ELSE q + 1

\* int(n * 0.pp) as the code writes it, the factor given in hundredths.
IntScaleRounded(n, hundredths) == Round(n * hundredths, 100)
IntScale(n, hundredths) == Trunc(n * hundredths, 100)

\* One bound of a Python slice a[i:...] over a dimension of n entries.
SliceBound(i, n) == IF i < 0 THEN Max(i + n, 0) ELSE Min(i, n)
\* The number of entries of a[lo:hi] over a dimension of n entries.
SliceLen(n, lo, hi) == Max(0, SliceBound(hi, n) - SliceBound(lo, n))

\* clip.resize(height=h): uniform scale, the new width truncated to an integer.
ResizeToHeight(size, h) == <<Trunc(size[1] * h, size[2]), h>>

\* --------------------------------------------------------------- inputs
\* 16:9, 4:3, 1:1 and 9:16 frames, and a 1:2 frame narrower than the target.
BaseSizes == {<<1280, 720>>, <<960, 720>>, <<720, 720>>, <<405, 720>>, <<360, 720>>}
Sources == {<<s[1] * k, s[2] * k>> : s \in BaseSizes, k \in 1..MaxScale}
\* Frames with an empty dimension, the only ones the clamped zone is degenerate on.
EmptySizes == {<<0, 720>>, <<1280, 0>>}
Durations == {10} \cup ((MAX_DURATION - MaxOver)..(MAX_DURATION + MaxOver))
DurationHints == {60, MAX_DURATION, 240}
ClipDatas == { [title |-> "Clutch", broadcaster_name |-> "Anyme023", game_name |-> "Valorant"],
               [game_name |-> "Valorant"] }
OutroDurations == 1..MaxOutro

\* dict.get(key, default)
DictGet(d, key, default) == IF key \in DOMAIN d THEN d[key] ELSE default

\* ------------------------------------------------------- layer builders
\* clip.crop(x1, y1, x2, y2): the frame slice pic[int(y1):int(y2), int(x1):int(x2)].
CropSize(size, x1, y1, x2, y2) ==
  <<SliceLen(size[1], x1, x2), SliceLen(size[2], y1, y2)>>

IsEmpty(size) == size[1] = 0 \/ size[2] = 0

WebcamCrop(size) ==
  CropSize(size, WEBCAM_COORDS.x1, WEBCAM_COORDS.y1, WEBCAM_COORDS.x2, WEBCAM_COORDS.y2)

\* crop(y1=y2 of the zone, y2=clip.h): x1 defaults to 0 and x2 to the clip's width.
GameplayCrop(size) == CropSize(size, 0, WEBCAM_COORDS.y2, size[1], size[2])

extract_webcam(clip) ==
  LET cam   == ResizeToHeight(WebcamCrop(clip.size), IntScale(RESOLUTION[2], 33))
      x_pos == (RESOLUTION[1] - cam[1]) \div 2
  IN  [kind |-> "webcam", size |-> cam, pos |-> <<x_pos, 0>>, duration |-> clip.duration]

extract_gameplay(clip) ==
  LET game  == ResizeToHeight(GameplayCrop(clip.size), IntScale(RESOLUTION[2], 67))
      x_pos == (RESOLUTION[1] - game[1]) \div 2
      y_pos == IntScale(RESOLUTION[2], 33)
  IN  [kind |-> "gameplay", size |-> game, pos |-> <<x_pos, y_pos>>, duration |-> clip.duration]

\* The crop window of crop(x_center=c/2, width=width) over a dimension of n
\* entries, c = n: the bounds n/2 -+ width/2 truncated by int(), then sliced.
\* lo and hi are the first kept entry and the first dropped one.
CenterWindowLeftAligned(n, width) == [lo |-> 0, hi |-> SliceBound(width, n)]
CenterWindow(n, width) ==
  [lo |-> SliceBound(Trunc(n - width, 2), n), hi |-> SliceBound(Trunc(n + width, 2), n)]

full_screen_clip(clip) ==
  LET c  == ResizeToHeight(clip.size, RESOLUTION[2])
      wx == CenterWindow(c[1], RESOLUTION[1])
      wy == CenterWindow(c[2], RESOLUTION[2])
  IN  [kind |-> "full_bleed",
       size |-> <<Max(0, wx.hi - wx.lo), Max(0, wy.hi - wy.lo)>>,
       pos |-> <<0, 0>>, duration |-> clip.duration,
       scaled |-> c, window |-> [x |-> wx, y |-> wy]]

create_background(duration, asset_exists) ==
  [kind |-> "background", content |-> IF asset_exists THEN "fond_short.png" ELSE "black",
   size |-> RESOLUTION, pos |-> <<0, 0>>, duration |-> duration]

\* TextClip with the named font, or with the default font when that raises.
create_text_clip(kind, text, font, font_found, size, stroke10, y_pos, duration) ==
  [kind |-> kind, text |-> text, font |-> IF font_found THEN font ELSE "default",
   fontsize |-> size, stroke10 |-> stroke10, pos |-> <<"center", y_pos>>,
   duration |-> duration]

\* ------------------------------------------------------------ classifier
\* The zone clamped against a frame of shape (h, w).
ClampZone(w, h) ==
  [x1 |-> Max(0, Min(w - 1, WEBCAM_COORDS.x1)), x2 |-> Max(0, Min(w, WEBCAM_COORDS.x2)),
   y1 |-> Max(0, Min(h - 1, WEBCAM_COORDS.y1)), y2 |-> Max(0, Min(h, WEBCAM_COORDS.y2))]

Degenerate(z) == z.x2 <= z.x1 \/ z.y2 <= z.y1

NoZone == [x1 |-> 0, x2 |-> 0, y1 |-> 0, y2 |-> 0]

Raised(error, cause, frames, detects) ==
  [outcome |-> "raise", error |-> error, cause |-> cause, value |-> FALSE,
   get_frame_calls |-> frames, detect_calls |-> detects, clamped |-> FALSE, zone |-> NoZone]

Returned(value, detects, z) ==
  [outcome |-> "return", error |-> "none", cause |-> "none", value |-> value,
   get_frame_calls |-> 1, detect_calls |-> detects, clamped |-> TRUE, zone |-> z]

\* The classifier without the degenerate-zone test.
is_face_in_webcam_zone_unguarded(cv2_ok, cascade_ok, frame_ok, size, detection) ==
  IF ~cv2_ok THEN Raised("RuntimeError", "cv2_missing", 0, 0)
  ELSE IF ~cascade_ok THEN Raised("RuntimeError", "cascade_missing", 0, 0)
  ELSE IF ~frame_ok THEN Raised("RuntimeError", "frame_error", 1, 0)
  ELSE IF detection = "error" THEN Raised("cv2.error", "detector_error", 1, 1)
  ELSE Returned(detection = "face", 1, ClampZone(size[1], size[2]))

\* cv2_ok: the import of cv2 succeeded; cascade_ok: the cascade file exists;
\* frame_ok: clip.get_frame(0.0) returns a frame, of shape size; detection: what
\* cvtColor and detectMultiScale do on the region ("face", "noface", "error").
is_face_in_webcam_zone(cv2_ok, cascade_ok, frame_ok, size, detection) ==
  IF ~cv2_ok THEN Raised("RuntimeError", "cv2_missing", 0, 0)
  ELSE IF ~cascade_ok THEN Raised("RuntimeError", "cascade_missing", 0, 0)
  ELSE IF ~frame_ok THEN Raised("RuntimeError", "frame_error", 1, 0)
  ELSE LET z == ClampZone(size[1], size[2])
       IN  IF Degenerate(z) THEN Returned(FALSE, 0, z)
           ELSE IF detection = "error" THEN Raised("cv2.error", "detector_error", 1, 1)
           ELSE Returned(detection = "face", 1, z)


\* ------------------------------------------------------- pipeline pieces
\* VideoFileClip(path), cut to MAX_DURATION when longer; the untrimmed variant first.
load_clip_untrimmed(source) ==
  [size |-> source.size, duration |-> source.duration, audio |-> "source_audio"]
load_clip(source) ==
  [size |-> source.size,
   duration |-> IF source.duration > MAX_DURATION THEN MAX_DURATION ELSE source.duration,
   audio |-> "source_audio"]

SeqMax(ls) ==
  LET D == {ls[i].duration : i \in DOMAIN ls}
  IN  IF D = {} THEN 0 ELSE CHOOSE d \in D : \A e \in D : e <= d

\* CompositeVideoClip(layers, size=RESOLUTION).set_audio(audio): it lasts as long
\* as its longest layer.
Composite(layers, audio) ==
  [layers |-> layers, size |-> RESOLUTION, duration |-> SeqMax(layers), audio |-> audio]

\* The two branches of the layout; the variant that keeps the backdrop under the
\* full-bleed layer first.
compose_with_backdrop(face_in_webcam, clip, bg, title_clip, streamer_clip) ==
  IF face_in_webcam
  THEN Composite(<<bg, extract_gameplay(clip), extract_webcam(clip), title_clip, streamer_clip>>,
                 clip.audio)
  ELSE Composite(<<bg, full_screen_clip(clip), title_clip, streamer_clip>>, clip.audio)
compose(face_in_webcam, clip, bg, title_clip, streamer_clip) ==
  IF face_in_webcam
  THEN Composite(<<bg, extract_gameplay(clip), extract_webcam(clip), title_clip, streamer_clip>>,
                 clip.audio)
  ELSE Composite(<<full_screen_clip(clip), title_clip, streamer_clip>>, clip.audio)

\* The crops and resizes of the chosen branch fail on an empty frame region.
LayoutMustRaise(face_in_webcam, clip) ==
  IF face_in_webcam
  THEN IsEmpty(WebcamCrop(clip.size)) \/ IsEmpty(GameplayCrop(clip.size))
  ELSE IsEmpty(clip.size)

\* concatenate_videoclips([main_clip, end_clip]) when the outro exists, main_clip
\* itself otherwise; the variant that overlays the outro from time 0 first.
append_end_sequence_overlaid(main, exists, outro_duration) ==
  IF exists
  THEN [object |-> "concat",
        segments |-> << [part |-> "composed", start |-> 0, end |-> main.duration],
                        [part |-> "end_clip", start |-> 0, end |-> outro_duration] >>,
        duration |-> Max(main.duration, outro_duration)]
  ELSE [object |-> "composed",
        segments |-> << [part |-> "composed", start |-> 0, end |-> main.duration] >>,
        duration |-> main.duration]
append_end_sequence(main, exists, outro_duration) ==
  IF exists
  THEN [object |-> "concat",
        segments |-> << [part |-> "composed", start |-> 0, end |-> main.duration],
                        [part |-> "end_clip", start |-> main.duration,
                         end |-> main.duration + outro_duration] >>,
        duration |-> main.duration + outro_duration]
  ELSE [object |-> "composed",
        segments |-> << [part |-> "composed", start |-> 0, end |-> main.duration] >>,
        duration |-> main.duration]

\* ----------------------------------------------------------------- state
VARIABLES
  pc,              \* the point process_gameplay_clip has reached
  args,            \* its arguments: the source file, max_duration_seconds, clip_data
  clip,            \* the opened, trimmed source clip
  duration,        \* the local variable duration
  cls,             \* what is_face_in_webcam_zone did
  face_in_webcam,  \* the local variable face_in_webcam
  bg, title_clip, streamer_clip,
  branch,          \* the branch of the layout taken: "none", "webcam", "full"
  composed,
  end_clip,        \* the opened outro clip, resized to RESOLUTION
  final,
  opened,          \* the file handles opened: "clip", "end_clip"
  closeCalls,      \* the close() calls made on each clip object
  trace,           \* the external calls and steps made, in order
  error            \* the error raised to the caller, or NoError

vars == <<pc, args, clip, duration, cls, face_in_webcam, bg, title_clip, streamer_clip,
          branch, composed, end_clip, final, opened, closeCalls, trace, error>>

Objects == {"clip", "composed", "concat"}

NoClip == [size |-> <<0, 0>>, duration |-> 0, audio |-> "none"]
NotClassified ==
  [outcome |-> "none", error |-> "none", cause |-> "none", value |-> FALSE,
   get_frame_calls |-> 0, detect_calls |-> 0, clamped |-> FALSE, zone |-> NoZone]
NoLayer == [kind |-> "none"]
NoComposite == [layers |-> <<>>, size |-> <<0, 0>>, duration |-> 0, audio |-> "none"]
NoFinal == [object |-> "none", segments |-> <<>>, duration |-> 0]
NoError == [type |-> "none", at |-> "none"]

Init ==
  /\ pc = "load"
  /\ args \in [source : [size : Sources \cup EmptySizes, duration : Durations],
               max_duration_seconds : DurationHints,
               clip_data : ClipDatas]
  /\ clip = NoClip
  /\ duration = 0
  /\ cls = NotClassified
  /\ face_in_webcam = FALSE
  /\ bg = NoLayer
  /\ title_clip = NoLayer
  /\ streamer_clip = NoLayer
  /\ branch = "none"
  /\ composed = NoComposite
  /\ end_clip = NoClip
  /\ final = NoFinal
  /\ opened = {}
  /\ closeCalls = [o \in Objects |-> 0]
  /\ trace = <<>>
  /\ error = NoError

\* An error leaves process_gameplay_clip from the step `at`, nothing in between.
Raise(type, at) ==
  /\ pc' = "raised"
  /\ error' = [type |-> type, at |-> at]

\* clip = load_clip(input_path); duration = clip.duration
LoadClip ==
  /\ pc = "load"
  /\ \/ /\ clip' = load_clip(args.source)
        /\ duration' = clip'.duration
        /\ opened' = opened \cup {"clip"}
        /\ trace' = Append(trace, "open")
        /\ pc' = "classify"
        /\ UNCHANGED error
     \/ /\ Raise("OSError", "load")
        /\ trace' = Append(trace, "open")
        /\ UNCHANGED <<clip, duration, opened>>
  /\ UNCHANGED <<args, cls, face_in_webcam, bg, title_clip, streamer_clip, branch,
                 composed, end_clip, final, closeCalls>>

ClassifierCalls(r) ==
  (IF r.get_frame_calls = 1 THEN <<"get_frame">> ELSE <<>>)
  \o (IF r.detect_calls = 1 THEN <<"detect">> ELSE <<>>)

\* try: face_in_webcam = is_face_in_webcam_zone(clip)
Classify ==
  /\ pc = "classify"
  /\ \E cv2_ok \in BOOLEAN, cascade_ok \in BOOLEAN, frame_ok \in BOOLEAN,
        detection \in {"face", "noface", "error"} :
       LET r == is_face_in_webcam_zone(cv2_ok, cascade_ok, frame_ok, clip.size, detection)
       IN  /\ cls' = r
           /\ trace' = trace \o <<"classify">> \o ClassifierCalls(r)
           /\ IF r.outcome = "return"
              THEN /\ face_in_webcam' = r.value
                   /\ pc' = "background"
                   /\ UNCHANGED error
              ELSE IF r.error = "RuntimeError"
              THEN /\ pc' = "except"
                   /\ UNCHANGED <<face_in_webcam, error>>
              ELSE /\ Raise(r.error, "classify")
                   /\ UNCHANGED face_in_webcam
  /\ UNCHANGED <<args, clip, duration, bg, title_clip, streamer_clip, branch,
                 composed, end_clip, final, opened, closeCalls>>

\* except RuntimeError: the variant that re-raises without closing first.
HandleRuntimeErrorNoClose ==
  /\ pc = "except"
  /\ Raise("RuntimeError", "classify")
  /\ UNCHANGED <<args, clip, duration, cls, face_in_webcam, bg, title_clip, streamer_clip,
                 branch, composed, end_clip, final, opened, closeCalls, trace>>

\* except RuntimeError: clip.close(); raise
HandleRuntimeError ==
  /\ pc = "except"
  /\ closeCalls' = [closeCalls EXCEPT !["clip"] = @ + 1]
  /\ Raise("RuntimeError", "classify")
  /\ UNCHANGED <<args, clip, duration, cls, face_in_webcam, bg, title_clip, streamer_clip,
                 branch, composed, end_clip, final, opened, trace>>


\* bg = create_background(duration)
CreateBackground ==
  /\ pc = "background"
  /\ \/ /\ \E asset_exists \in BOOLEAN : bg' = create_background(duration, asset_exists)
        /\ pc' = "text"
        /\ UNCHANGED error
     \/ /\ Raise("OSError", "background")
        /\ UNCHANGED bg
  /\ UNCHANGED <<args, clip, duration, cls, face_in_webcam, title_clip, streamer_clip,
                 branch, composed, end_clip, final, opened, closeCalls, trace>>

\* title_clip and streamer_clip, from clip_data with its defaults
CreateText ==
  /\ pc = "text"
  /\ \/ /\ \E bold_found \in BOOLEAN, regular_found \in BOOLEAN :
             LET title_text == DictGet(args.clip_data, "title", "Titre du clip")
                 streamer   == DictGet(args.clip_data, "broadcaster_name", "Streamer")
             IN  /\ title_clip' = create_text_clip("title", title_text, "Roboto-Bold.ttf",
                                                   bold_found, 70, 15, "top", duration)
                 /\ streamer_clip' = create_text_clip("caption", <<"@", streamer>>,
                                                      "Roboto-Regular.ttf", regular_found,
                                                      40, 5, "bottom", duration)
        /\ pc' = "layout"
        /\ UNCHANGED error
     \/ /\ Raise("OSError", "text")
        /\ UNCHANGED <<title_clip, streamer_clip>>
  /\ UNCHANGED <<args, clip, duration, cls, face_in_webcam, bg, branch, composed,
                 end_clip, final, opened, closeCalls, trace>>

\* if face_in_webcam: ... else: ...  (the layers of the branch, then the composite)
Layout ==
  /\ pc = "layout"
  /\ branch' = IF face_in_webcam THEN "webcam" ELSE "full"
  /\ trace' = Append(trace, "layout")
  /\ \/ /\ ~LayoutMustRaise(face_in_webcam, clip)
        /\ composed' = compose(face_in_webcam, clip, bg, title_clip, streamer_clip)
        /\ pc' = "append"
        /\ UNCHANGED error
     \/ /\ Raise("Exception", "layout")
        /\ UNCHANGED composed
  /\ UNCHANGED <<args, clip, duration, cls, face_in_webcam, bg, title_clip, streamer_clip,
                 end_clip, final, opened, closeCalls>>

\* final = append_end_sequence(composed)
AppendEndSequence ==
  /\ pc = "append"
  /\ \/ /\ final' = append_end_sequence(composed, FALSE, 0)
        /\ pc' = "render"
        /\ UNCHANGED <<end_clip, opened, trace, error>>
     \/ /\ \E outro_duration \in OutroDurations :
             end_clip' = [size |-> RESOLUTION, duration |-> outro_duration,
                          audio |-> "outro_audio"]
        /\ final' = append_end_sequence(composed, TRUE, end_clip'.duration)
        /\ opened' = opened \cup {"end_clip"}
        /\ trace' = Append(trace, "open_outro")
        /\ pc' = "render"
        /\ UNCHANGED error
     \/ /\ Raise("OSError", "append")
        /\ trace' = Append(trace, "open_outro")
        /\ UNCHANGED <<end_clip, final, opened>>
  /\ UNCHANGED <<args, clip, duration, cls, face_in_webcam, bg, title_clip, streamer_clip,
                 branch, composed, closeCalls>>

Count(seq, e) == Cardinality({i \in DOMAIN seq : seq[i] = e})

\* The render with one more attempt after a failure.
RenderWithRetry ==
  /\ pc = "render"
  /\ trace' = Append(trace, "render")
  /\ \/ /\ pc' = "close_clip"
        /\ UNCHANGED error
     \/ /\ Count(trace, "render") = 0
        /\ UNCHANGED <<pc, error>>
     \/ Raise("OSError", "render")
  /\ UNCHANGED <<args, clip, duration, cls, face_in_webcam, bg, title_clip, streamer_clip,
                 branch, composed, end_clip, final, opened, closeCalls>>

\* final.write_videofile(output_path, fps=30, codec="libx264", audio_codec="aac")
Render ==
  /\ pc = "render"
  /\ trace' = Append(trace, "render")
  /\ \/ /\ pc' = "close_clip"
        /\ UNCHANGED error
     \/ Raise("OSError", "render")
  /\ UNCHANGED <<args, clip, duration, cls, face_in_webcam, bg, title_clip, streamer_clip,
                 branch, composed, end_clip, final, opened, closeCalls>>

Close(object, next) ==
  /\ closeCalls' = [closeCalls EXCEPT ![object] = @ + 1]
  /\ pc' = next
  /\ UNCHANGED <<args, clip, duration, cls, face_in_webcam, bg, title_clip, streamer_clip,
                 branch, composed, end_clip, final, opened, trace, error>>

\* clip.close()
CloseClip == pc = "close_clip" /\ Close("clip", "close_composed")

\* composed.close()
CloseComposed == pc = "close_composed" /\ Close("composed", "close_final")

\* final.close(): final is the concatenation, or the composed clip itself
CloseFinal == pc = "close_final" /\ Close(final.object, "return")

\* return output_path
Return ==
  /\ pc = "return"
  /\ pc' = "returned"
  /\ UNCHANGED <<args, clip, duration, cls, face_in_webcam, bg, title_clip, streamer_clip,
                 branch, composed, end_clip, final, opened, closeCalls, trace, error>>

Next ==
  \/ LoadClip
  \/ Classify
  \/ HandleRuntimeError
  \/ CreateBackground
  \/ CreateText
  \/ Layout
  \/ AppendEndSequence
  \/ Render
  \/ CloseClip
  \/ CloseComposed
  \/ CloseFinal
  \/ Return

Spec == Init /\ [][Next]_vars

Exited == pc \in {"returned", "raised"}

Built == Len(composed.layers) > 0
Kinds(layers) == [i \in DOMAIN layers |-> layers[i].kind]
Layer(kind) == composed.layers[CHOOSE i \in DOMAIN composed.layers : composed.layers[i].kind = kind]

\* A handle counts as released once close() was called on the clip that holds it:
\* the source on clip, the outro on the concatenation it is part of.
Released(h) == IF h = "clip" THEN closeCalls["clip"] >= 1 ELSE closeCalls["concat"] >= 1

\* C1: when process_gameplay_clip has returned or raised, every handle the run
\* opened (the source clip, the outro clip) has been released.
C1_OpenedHandlesReleasedOnExit == Exited => \A h \in opened : Released(h)

\* C2: after a normal return the source clip, the composed visual and the final
\* sequence have each had exactly one close() call, with or without an outro.
C2_EachReleasedExactlyOnce ==
  pc = "returned" =>
    /\ closeCalls["clip"] = 1
    /\ closeCalls["composed"] = 1
    /\ closeCalls[final.object] = 1

FatalCauses == {"cv2_missing", "cascade_missing", "frame_error"}

\* C3: when the detector is unavailable, the cascade file is missing or the first
\* frame cannot be extracted, the run is on its way out with a RuntimeError: no
\* layout branch is taken, nothing is composed or rendered, and once the error
\* has surfaced the source clip has been closed, once.
C3_FatalClassifierErrorPropagates ==
  cls.cause \in FatalCauses =>
    /\ pc \in {"except", "raised"}
    /\ branch = "none"
    /\ ~Built
    /\ Count(trace, "layout") = 0
    /\ Count(trace, "render") = 0
    /\ pc = "raised" => /\ error = [type |-> "RuntimeError", at |-> "classify"]
                        /\ closeCalls["clip"] = 1

C3_Witness == pc = "raised" /\ cls.cause = "frame_error" /\ closeCalls["clip"] = 1

\* C4: the composed plan is the 5 layers background, gameplay, webcam, title,
\* caption when the classifier returned true and the 3 layers full-bleed, title,
\* caption when it returned false, whatever the background asset; its audio is
\* the source clip's audio.
C4_PlanShape ==
  Built =>
    /\ cls.outcome = "return"
    /\ Kinds(composed.layers) =
         IF cls.value THEN <<"background", "gameplay", "webcam", "title", "caption">>
         ELSE <<"full_bleed", "title", "caption">>
    /\ cls.value => composed.layers[1] = bg
    /\ composed.audio = "source_audio"
    /\ composed.audio = clip.audio

C4_Witness ==
  /\ Built
  /\ ~cls.value
  /\ bg.content = "fond_short.png"
  /\ Len(composed.layers) = 3

\* C5: the duration of the trimmed clip, of the background, of the title, of the
\* caption and of the composed visual is min(source duration, 180), whatever
\* max_duration_seconds is.
C5_DurationIsCapped ==
  LET d == Min(args.source.duration, 180)
  IN  /\ "clip" \in opened => duration = d /\ clip.duration = d
      /\ bg # NoLayer => bg.duration = d
      /\ title_clip # NoLayer => title_clip.duration = d
      /\ streamer_clip # NoLayer => streamer_clip.duration = d
      /\ Built => composed.duration = d

C5_Witness ==
  /\ args.source.duration = 182
  /\ args.max_duration_seconds = 240
  /\ Built
  /\ composed.duration = 180

C7_HeightsAreRounded ==
  (Built /\ branch = "webcam") =>
    /\ Layer("webcam").size[2] = Round(1920 * 33, 100)
    /\ Layer("gameplay").size[2] = Round(1920 * 67, 100)
    /\ Layer("gameplay").pos[2] = Layer("webcam").size[2]

\* C7 amended: the webcam layer is floor(1920 x 0.33) = 633 high, the gameplay
\* layer floor(1920 x 0.67) = 1286 high, the webcam layer sits at y = 0 and the
\* gameplay layer starts at y = 633, where the webcam layer ends.
C7_HeightsAreTruncated ==
  (Built /\ branch = "webcam") =>
    /\ Layer("webcam").size[2] = (1920 * 33) \div 100
    /\ Layer("webcam").size[2] = 633
    /\ Layer("gameplay").size[2] = (1920 * 67) \div 100
    /\ Layer("gameplay").size[2] = 1286
    /\ Layer("webcam").pos[2] = 0
    /\ Layer("gameplay").pos[2] = Layer("webcam").pos[2] + Layer("webcam").size[2]

C7_Witness == Built /\ branch = "webcam" /\ Layer("gameplay").pos[2] = 633

ListedRatio(size) ==
  \/ size[1] * 9 = size[2] * 16
  \/ size[1] * 3 = size[2] * 4
  \/ size[1] = size[2]
  \/ size[1] * 16 = size[2] * 9

\* C8: for a 16:9, 4:3, 1:1 or 9:16 source the full-bleed layer is exactly
\* 1080 x 1920 at (0, 0); the window is centred on the scaled frame, so the
\* columns dropped left and right add up to the excess and differ by at most the
\* one pixel an odd excess leaves.
C8_FullBleedFillsTarget ==
  (Built /\ branch = "full" /\ ListedRatio(clip.size)) =>
    LET l     == Layer("full_bleed")
        left  == l.window.x.lo
        right == l.scaled[1] - l.window.x.hi
    IN  /\ l.size = <<1080, 1920>>
        /\ l.pos = <<0, 0>>
        /\ l.scaled[2] = 1920
        /\ left + right = l.scaled[1] - 1080
        /\ left <= right /\ right <= left + 1
        /\ l.window.y = [lo |-> 0, hi |-> 1920]

C8_Witness ==
  /\ Built
  /\ branch = "full"
  /\ clip.size = <<1280, 720>>
  /\ Layer("full_bleed").scaled[1] = 3413
  /\ Layer("full_bleed").window.x = [lo |-> 1166, hi |-> 2246]

\* C9: with the outro the final sequence is the composed visual then the outro:
\* it lasts the two durations together and the outro starts where the composed
\* visual ends, after its start; without the outro it is the composed visual
\* itself, with its duration.
C9_OutroFollowsComposition ==
  final.object # "none" =>
    IF "end_clip" \in opened
    THEN /\ final.object = "concat"
         /\ Len(final.segments) = 2
         /\ final.segments[1] = [part |-> "composed", start |-> 0, end |-> composed.duration]
         /\ final.segments[2].part = "end_clip"
         /\ final.segments[2].start >= final.segments[1].end
         /\ final.segments[2].start > final.segments[1].start
         /\ final.segments[2].end = final.segments[2].start + end_clip.duration
         /\ final.duration = composed.duration + end_clip.duration
    ELSE /\ final.object = "composed"
         /\ final.segments = << [part |-> "composed", start |-> 0, end |-> composed.duration] >>
         /\ final.duration = composed.duration

C9_Witness ==
  /\ pc = "returned"
  /\ composed.duration = 10
  /\ end_clip.duration = 3
  /\ final.duration = 13

Rank(e) ==
  CASE e = "open" -> 1
    [] e = "classify" -> 2
    [] e = "get_frame" -> 3
    [] e = "detect" -> 4
    [] e = "layout" -> 5
    [] e = "open_outro" -> 6
    [] e = "render" -> 7

\* C10: the source is opened, classified, laid out and rendered in that order,
\* each external call and each step at most once; the layout branch is taken
\* only after the classifier returned a boolean and is the one that boolean
\* selects, and a run whose classification raised has no layout and no render.
C10_StepsOnceInOrder ==
  /\ \A i, j \in DOMAIN trace : i < j => Rank(trace[i]) < Rank(trace[j])
  /\ Count(trace, "layout") = 1 <=> branch # "none"
  /\ branch # "none" =>
       /\ cls.outcome = "return"
       /\ branch = IF cls.value THEN "webcam" ELSE "full"
  /\ Count(trace, "render") = 1 => Built /\ final.object # "none"
  /\ cls.outcome = "raise" => Count(trace, "layout") = 0 /\ Count(trace, "render") = 0
  /\ pc = "returned" => trace[1] = "open" /\ trace[2] = "classify" /\ trace[Len(trace)] = "render"

C10_Witness ==
  /\ pc = "returned"
  /\ Count(trace, "detect") = 1
  /\ Count(trace, "layout") = 1
  /\ Count(trace, "render") = 1

====
